---- MODULE Spec2Model ----
(***************************************************************************)
(* Model of the async IoC container: its Container class and lifecycles.    *)
(*                                                                         *)
(* Every action is one turn of the JavaScript event loop: the synchronous   *)
(* body of a public call, of a Q.try/Q.ninvoke dispatch or of a promise     *)
(* callback.  Turns interleave freely; a turn itself is atomic.             *)
(*                                                                         *)
(* The environment makes each register call of Catalog at most once, so a   *)
(* module (the closures one register call creates) is identified by the     *)
(* index of its call.  Promises are heap objects: runs (one per call of     *)
(* _callModuleFactory, named <<module, k>> for the k-th call of that        *)
(* module's _callModuleFactory), wraps (one per call of _wrapInstance,      *)
(* named <<module, name, k>>), gets (one per user call of get/start).  An   *)
(* instance is identified by the run whose raw factory produced it.         *)
(***************************************************************************)
EXTENDS Naturals, Sequences, FiniteSets, TLC

Names == {"a", "b", "c"}

\* The environment makes at most MaxCalls calls of register, get and start.
MaxCalls == 4
\* _callModuleFactory (and _wrapInstance) runs at most MaxRuns times per module.
MaxRuns == 2
MaxWalks == 1
\* reset is called at most MaxResets times.
MaxResets == 1
\* In the program that raises stop events while a walk is under way, at most
\* MaxOverlap events are raised.
MaxOverlap == 2

\* The register calls the environment may make: register(names, factory, deps, options).
\* callable tells whether the factory argument is a function.
Catalog ==
  << [names |-> <<"c">>, deps |-> <<>>,         lifecycle |-> "singleton", replace |-> FALSE,
      callable |-> TRUE],
     [names |-> <<"b">>, deps |-> <<>>,         lifecycle |-> "singleton", replace |-> FALSE,
      callable |-> TRUE],
     [names |-> <<"b">>, deps |-> <<"c">>,      lifecycle |-> "singleton", replace |-> FALSE,
      callable |-> TRUE],
     [names |-> <<"a">>, deps |-> <<"b", "c">>, lifecycle |-> "singleton", replace |-> FALSE,
      callable |-> TRUE],
     [names |-> <<"b">>, deps |-> <<>>,         lifecycle |-> "singleton", replace |-> TRUE,
      callable |-> TRUE],
     [names |-> <<"a", "b">>, deps |-> <<>>,    lifecycle |-> "singleton", replace |-> FALSE,
      callable |-> TRUE],
     [names |-> <<"c">>, deps |-> <<>>,         lifecycle |-> "bogus",     replace |-> FALSE,
      callable |-> TRUE],
     [names |-> <<"c">>, deps |-> <<>>,         lifecycle |-> "singleton", replace |-> FALSE,
      callable |-> FALSE],
     [names |-> <<"b">>, deps |-> <<>>,         lifecycle |-> "singleton", replace |-> FALSE,
      callable |-> TRUE],
     [names |-> <<"a">>, deps |-> <<"a", "b">>, lifecycle |-> "singleton", replace |-> FALSE,
      callable |-> TRUE],
     [names |-> <<"b">>, deps |-> <<"c">>,      lifecycle |-> "singleton", replace |-> FALSE,
      callable |-> TRUE],
     [names |-> <<"c">>, deps |-> <<"b">>,      lifecycle |-> "singleton", replace |-> FALSE,
      callable |-> TRUE],
     [names |-> <<"a">>, deps |-> <<"c">>,      lifecycle |-> "transient", replace |-> FALSE,
      callable |-> TRUE] >>

ModIds == DOMAIN Catalog

\* The programs the environment runs: the register calls each one may make.
BaseMods == {1, 2, 3, 4}
ReplaceMods == {1, 2, 3, 5}
AliasMods == {2, 6, 7, 8}
ResetMods == {2, 9}
CycleMods == {1, 10, 11, 12}
TransientMods == {1, 13}
WalkMods == {1, 2}

\* The lifecycles the container knows (lib/lifecycles).
Lifecycles == {"singleton", "transient"}

\* this._stopTimeout = 10000
DefaultStopTimeout == 10000

\* What a raw factory may do when invoked: throw, return a falsy value, a plain
\* object, an object with a start(done) method, or a promise.  stop tells
\* whether the object (for a promise: its resolved value) has a stop method.
FactoryResults ==
  { [kind |-> "throws", stop |-> FALSE], [kind |-> "falsy", stop |-> FALSE] }
  \cup [kind : {"plain", "start", "promise"}, stop : BOOLEAN]

NoResult == [kind |-> "none", stop |-> FALSE]

NoWrap == <<0, "", 0>>

VARIABLES
  registrations,  \* _registrations: name -> module whose wrapper is registered (0: none)
  modules,        \* _modules: the register calls made so far (their module factories)
  mslot,          \* per module: `singleton` of lifecycles.singleton(_callModuleFactory): run or 0
  wslot,          \* per <<module, name>>: `singleton` of lifecycles.singleton(_wrapInstance): wrap or 0
  runs,           \* heap of _callModuleFactory invocations
  wraps,          \* heap of _wrapInstance invocations
  gets,           \* heap of user get/start calls
  stopSequence,   \* _stopSequence: instances (runs) in push order
  walks,          \* shutdown walks, one per raised stop event
  stops,          \* heap of Q.ninvoke(next, 'stop') calls
  factoryCalls,   \* history: per module, number of raw factory invocations
  completed,      \* history: stoppable instances in the order their startup succeeded
  stopped,        \* history: instances in the order their stop method was invoked
  called,         \* environment: the register calls of Catalog made so far
  calls,          \* environment: number of calls of public methods made so far
  outcome,        \* history: per register call, "self" (returned) or "threw"
  resets,         \* history: number of reset calls made so far
  interfaces,     \* _interfaces: the names that have an interface definition
  settings,       \* _isDebug, _logger, _stopTimeout
  returned        \* history: what the last call of a configuration method returned

vars == <<registrations, modules, mslot, wslot, runs, wraps, gets, stopSequence,
          walks, stops, factoryCalls, completed, stopped,
          called, calls, outcome, resets, interfaces, settings, returned>>

resolveVars == <<mslot, wslot, runs, wraps>>
stopVars == <<walks, stops, stopped>>
envVars == <<called, calls, outcome, resets>>
confVars == <<interfaces, settings, returned>>

Init ==
  /\ registrations = [n \in Names |-> 0]
  /\ modules = {}
  /\ mslot = [m \in ModIds |-> 0]
  /\ wslot = [p \in ModIds \X Names |-> 0]
  /\ runs = <<>>
  /\ wraps = <<>>
  /\ gets = <<>>
  /\ stopSequence = <<>>
  /\ walks = <<>>
  /\ stops = <<>>
  /\ factoryCalls = [m \in ModIds |-> 0]
  /\ completed = <<>>
  /\ stopped = <<>>
  /\ called = {}
  /\ calls = 0
  /\ outcome = [m \in ModIds |-> "none"]
  /\ resets = 0
  /\ interfaces = [n \in Names |-> FALSE]
  /\ settings = [isDebug |-> FALSE, logger |-> "console", stopTimeout |-> DefaultStopTimeout]
  /\ returned = "none"

----------------------------------------------------------------------------
\* register

\* serviceNames.forEach: a name already registered without options.replace
\* throws and ends the loop; the names before it keep their new registration.
RegisterNamesNeverReplaces(regs, names, m, replace) ==
  [n \in Names |-> IF regs[n] = 0 /\ \E i \in DOMAIN names : names[i] = n THEN m ELSE regs[n]]
RECURSIVE RegisterNames(_, _, _, _)
RegisterNames(regs, names, m, replace) ==
  IF names = <<>> THEN regs
  ELSE IF regs[Head(names)] # 0 /\ ~replace THEN regs
  ELSE RegisterNames([regs EXCEPT ![Head(names)] = m], Tail(names), m, replace)

\* serviceNames.forEach throws on a name that is registered, replace not set.
NamesConflict(regs, names, replace) ==
  ~replace /\ \E i \in DOMAIN names : regs[names[i]] # 0

\* The calls of public methods made so far.
Calls == calls

RejectsFactoryNever(m) == FALSE
\* `if (typeof factory !== 'function') throw`, before anything is created.
RejectsFactory(m) == ~Catalog[m].callable

\* _createLifecycleFactory: `if (!lifecycles[lifecycle]) throw`, called by
\* register before the module is stored.
UnsupportedLifecycle(m) == Catalog[m].lifecycle \notin Lifecycles

Register(m) ==
  /\ Calls < MaxCalls
  /\ m \notin called
  /\ called' = called \cup {m}
  /\ calls' = calls + 1
  /\ IF RejectsFactory(m) \/ UnsupportedLifecycle(m)
     THEN /\ outcome' = [outcome EXCEPT ![m] = "threw"]
          /\ UNCHANGED <<registrations, modules>>
     ELSE /\ modules' = modules \cup {m}
          /\ registrations' =
               RegisterNames(registrations, Catalog[m].names, m, Catalog[m].replace)
          /\ outcome' = [outcome EXCEPT ![m] =
               IF NamesConflict(registrations, Catalog[m].names, Catalog[m].replace)
               THEN "threw" ELSE "self"]
  /\ UNCHANGED <<resolveVars, gets, stopSequence, stopVars, factoryCalls, completed, resets,
                 confVars>>

----------------------------------------------------------------------------
\* lifecycles and registration.call()

\* State of the promise a run stands for.
RunState(r) ==
  IF runs[r].stage = "ok" THEN "ok"
  ELSE IF runs[r].stage = "err" THEN "err"
  ELSE "pending"

\* What the `singleton` variable of a lifecycle closure holds.
ModSlotState(m) == IF mslot[m] = 0 THEN "none" ELSE RunState(<<m, mslot[m]>>)
WrapSlotState(m, n) ==
  IF wslot[<<m, n>>] = 0 THEN "none" ELSE wraps[<<m, n, wslot[<<m, n>>]>>].st

\* The calls of _callModuleFactory of module m, of _wrapInstance of <<m, n>>, so far.
RunsOf(m) == Cardinality({id \in DOMAIN runs : id[1] = m})
WrapsOf(m, n) == Cardinality({id \in DOMAIN wraps : id[1] = m /\ id[2] = n})

NeedsCallRetryFailed(slotState) == slotState \in {"none", "err"}
NeedsCallUncachedPending(slotState) == slotState \in {"none", "pending"}
NeedsCallAlways(slotState) == TRUE
\* singleton lifecycle: `if (!singleton) singleton = factory()`.
NeedsCall(slotState) == slotState = "none"

NewRunSerial(m) ==
  [stage |-> "deps",
   reqs |-> [i \in 1..Len(Catalog[m].deps) |->
               [st |-> IF i = 1 THEN "queued" ELSE "held", wrap |-> NoWrap]],
   res |-> NoResult, started |-> 0]
\* _getDependencies: dependencies.forEach calls self.get for every name in the
\* same turn, each call queueing its Q.try body.
NewRun(m) ==
  [stage |-> "deps",
   reqs |-> [i \in 1..Len(Catalog[m].deps) |-> [st |-> "queued", wrap |-> NoWrap]],
   res |-> NoResult, started |-> 0]

\* registration.call() for name n registered to module m: the wrapper's
\* lifecycle, _wrapInstance, the module's lifecycle and _callModuleFactory up
\* to the return of _getDependencies (each self.get(dep) only queues a Q.try).
\* rs is the run heap as the caller leaves it.
TransientNever(m) == FALSE
\* transient lifecycle: `return factory`, the function itself, with no slot.
Transient(m) == Catalog[m].lifecycle = "transient"

CallsWrap(m, n) == Transient(m) \/ NeedsCall(WrapSlotState(m, n))
CallsModulePerAlias(m, n) == CallsWrap(m, n)
CallsModule(m, n) == CallsWrap(m, n) /\ (Transient(m) \/ NeedsCall(ModSlotState(m)))

RunAfterCall(m, n) == IF CallsModule(m, n) THEN RunsOf(m) + 1 ELSE mslot[m]
WrapAfterCall(m, n) == IF CallsWrap(m, n) THEN WrapsOf(m, n) + 1 ELSE wslot[<<m, n>>]

CallRegistration(m, n, rs) ==
  /\ CallsModule(m, n) => RunsOf(m) < MaxRuns
  /\ CallsWrap(m, n) => WrapsOf(m, n) < MaxRuns
  /\ runs' = IF CallsModule(m, n)
             THEN rs @@ (<<m, RunAfterCall(m, n)>> :> NewRun(m))
             ELSE rs
  /\ mslot' = IF Transient(m) THEN mslot ELSE [mslot EXCEPT ![m] = RunAfterCall(m, n)]
  /\ wraps' = IF CallsWrap(m, n)
              THEN wraps @@ (<<m, n, WrapAfterCall(m, n)>> :>
                               [run |-> <<m, RunAfterCall(m, n)>>, st |-> "pending",
                                wrapped |-> FALSE])
              ELSE wraps
  /\ wslot' = IF Transient(m) THEN wslot ELSE [wslot EXCEPT ![<<m, n>>] = WrapAfterCall(m, n)]

----------------------------------------------------------------------------
\* get / start

\* Container.prototype.get: Q.try defers its body to a later turn.
Get(n) ==
  /\ Calls < MaxCalls
  /\ calls' = calls + 1
  /\ gets' = Append(gets, [name |-> n, st |-> "queued", wrap |-> NoWrap])
  /\ UNCHANGED <<registrations, modules, called, outcome, resets, confVars, resolveVars, stopSequence, stopVars,
                 factoryCalls, completed>>

\* The Q.try body of a user get whose name is registered.
GetTask(g) ==
  /\ gets[g].st = "queued"
  /\ registrations[gets[g].name] # 0
  /\ LET n == gets[g].name
         m == registrations[n]
     IN /\ CallRegistration(m, n, runs)
        /\ gets' = [gets EXCEPT ![g] = [@ EXCEPT !.st = "waiting",
                                                  !.wrap = <<m, n, WrapAfterCall(m, n)>>]]
  /\ UNCHANGED <<registrations, modules, envVars, confVars, stopSequence, stopVars, factoryCalls, completed>>

\* The Q.try body of a user get whose name has no registration: it throws,
\* which rejects the promise get returned.
GetTaskUnregistered(g) ==
  /\ gets[g].st = "queued"
  /\ registrations[gets[g].name] = 0
  /\ gets' = [gets EXCEPT ![g].st = "err"]
  /\ UNCHANGED <<registrations, modules, envVars, confVars, resolveVars, stopSequence, stopVars,
                 factoryCalls, completed>>

\* The promise of a user get settles with the wrapper promise it follows.
GetSettle(g) ==
  /\ gets[g].st = "waiting"
  /\ wraps[gets[g].wrap].st # "pending"
  /\ gets' = [gets EXCEPT ![g].st = wraps[gets[g].wrap].st]
  /\ UNCHANGED <<registrations, modules, envVars, confVars, resolveVars, stopSequence, stopVars,
                 factoryCalls, completed>>

----------------------------------------------------------------------------
\* _getDependencies

\* The Q.try body of self.get(dependencies[i]) made by run r.
DepGetTask(r, i) ==
  /\ runs[r].reqs[i].st = "queued"
  /\ registrations[Catalog[r[1]].deps[i]] # 0
  /\ LET n == Catalog[r[1]].deps[i]
         m == registrations[n]
         req == [st |-> "waiting", wrap |-> <<m, n, WrapAfterCall(m, n)>>]
     IN CallRegistration(m, n, [runs EXCEPT ![r].reqs[i] = req])
  /\ UNCHANGED <<registrations, modules, envVars, confVars, gets, stopSequence, stopVars, factoryCalls, completed>>

\* self.get of a name with no registration: the Q.try body throws.
DepGetTaskUnregistered(r, i) ==
  /\ runs[r].reqs[i].st = "queued"
  /\ registrations[Catalog[r[1]].deps[i]] = 0
  /\ runs' = [runs EXCEPT ![r].reqs[i].st = "err"]
  /\ UNCHANGED <<registrations, modules, envVars, confVars, mslot, wslot, wraps, gets, stopSequence, stopVars,
                 factoryCalls, completed>>

\* The callback `inject[serviceName] = service`, or the rejection passing it by.
DepSettle(r, i) ==
  /\ runs[r].reqs[i].st = "waiting"
  /\ wraps[runs[r].reqs[i].wrap].st # "pending"
  /\ runs' = [runs EXCEPT ![r].reqs[i].st = wraps[runs[r].reqs[i].wrap].st]
  /\ UNCHANGED <<registrations, modules, envVars, confVars, mslot, wslot, wraps, gets, stopSequence, stopVars,
                 factoryCalls, completed>>

DepsReadyWhenSettled(r) == \A i \in DOMAIN runs[r].reqs : runs[r].reqs[i].st \in {"ok", "err"}
DepsReadyWhenAny(r) ==
  runs[r].reqs = <<>> \/ \E i \in DOMAIN runs[r].reqs : runs[r].reqs[i].st = "ok"
\* Q.all(promises) is fulfilled: every dependency has been injected.
DepsReady(r) == \A i \in DOMAIN runs[r].reqs : runs[r].reqs[i].st = "ok"

\* Q.all(promises) is rejected by the first dependency that fails.
DepsFailed(r) == \E i \in DOMAIN runs[r].reqs : runs[r].reqs[i].st = "err"

\* The instance, if it has a stop method, whose run r just became ready.
Completing(r, res, stage) ==
  IF stage = "ok" /\ res.stop THEN Append(completed, r) ELSE completed

\* Q.all rejected: the .then callback is skipped, .fail logs and rethrows.
DepsFail(r) ==
  /\ runs[r].stage = "deps"
  /\ DepsFailed(r)
  /\ runs' = [runs EXCEPT ![r].stage = "err"]
  /\ UNCHANGED <<registrations, modules, envVars, confVars, mslot, wslot, wraps, gets, stopSequence, stopVars,
                 factoryCalls, completed>>

----------------------------------------------------------------------------
\* _callModuleFactory: the callback that invokes the raw factory

StageAfterFactoryNoWait(res) ==
  CASE res.kind = "throws"  -> "err"
    [] res.kind = "falsy"   -> "ok"
    [] res.kind = "promise" -> "awaiting"
    [] res.kind = "start"   -> "ok"
    [] res.kind = "plain"   -> "ok"
\* Where the run stands when the callback returns: a throw rejects, a falsy
\* value or a plain object is the instance, a promise is awaited, an object
\* with start gets Q.ninvoke(service, 'start') queued.
StageAfterFactory(res) ==
  CASE res.kind = "throws"  -> "err"
    [] res.kind = "falsy"   -> "ok"
    [] res.kind = "promise" -> "awaiting"
    [] res.kind = "start"   -> "starting"
    [] res.kind = "plain"   -> "ok"

\* `if (service.stop) self._stopSequence.push(service)`: tested on what the
\* factory returned, before it is classified.  A promise has no stop method.
PushesStop(res) == res.kind \in {"plain", "start"} /\ res.stop

InvokeFactory(r, res) ==
  /\ runs[r].stage = "deps"
  /\ DepsReady(r)
  /\ runs' = [runs EXCEPT ![r].stage = StageAfterFactory(res), ![r].res = res]
  /\ factoryCalls' = [factoryCalls EXCEPT ![r[1]] = @ + 1]
  /\ stopSequence' = IF PushesStop(res) THEN Append(stopSequence, r) ELSE stopSequence
  /\ completed' = Completing(r, res, StageAfterFactory(res))
  /\ UNCHANGED <<registrations, modules, envVars, confVars, mslot, wslot, wraps, gets, stopVars>>

\* Q.ninvoke(service, 'start') dispatches: the start method is called.
StartInvoke(r) ==
  /\ runs[r].stage = "starting"
  /\ runs' = [runs EXCEPT ![r].stage = "startwait", ![r].started = @ + 1]
  /\ UNCHANGED <<registrations, modules, envVars, confVars, mslot, wslot, wraps, gets, stopSequence, stopVars,
                 factoryCalls, completed>>

\* start calls done() or done(err) (a throw inside start counts as done(err)).
StartSignal(r, ok) ==
  /\ runs[r].stage = "startwait"
  /\ runs' = [runs EXCEPT ![r].stage = IF ok THEN "ok" ELSE "err"]
  /\ completed' = Completing(r, runs[r].res, IF ok THEN "ok" ELSE "err")
  /\ UNCHANGED <<registrations, modules, envVars, confVars, mslot, wslot, wraps, gets, stopSequence, stopVars,
                 factoryCalls>>

\* The promise the factory returned is fulfilled or rejected.
PromiseSettle(r, ok) ==
  /\ runs[r].stage = "awaiting"
  /\ runs' = [runs EXCEPT ![r].stage = IF ok THEN "ok" ELSE "err"]
  /\ completed' = Completing(r, runs[r].res, IF ok THEN "ok" ELSE "err")
  /\ UNCHANGED <<registrations, modules, envVars, confVars, mslot, wslot, wraps, gets, stopSequence, stopVars,
                 factoryCalls>>

WrapsWithNoDefinition(n) == FALSE
\* `var definition = self._interfaces[interfaceName]`, read when the module's
\* promise is fulfilled: with a definition the wrapper promise carries
\* definition.wrap(module), without one the module itself.
WrapsWith(n) == interfaces[n]

\* _wrapInstance: the callback on moduleFactory()'s promise.
WrapSettle(w) ==
  /\ wraps[w].st = "pending"
  /\ RunState(wraps[w].run) # "pending"
  /\ wraps' = [wraps EXCEPT ![w].st = RunState(wraps[w].run),
                            ![w].wrapped = RunState(wraps[w].run) = "ok" /\ WrapsWith(w[2])]
  /\ UNCHANGED <<registrations, modules, envVars, confVars, mslot, wslot, runs, gets, stopSequence, stopVars,
                 factoryCalls, completed>>

----------------------------------------------------------------------------
\* stopOn and _stopNext

\* A _stopNext that reads the last entry and leaves it in the sequence.
StopNextKeepsEntry(w, ws, ss) ==
  IF stopSequence = <<>>
  THEN /\ walks' = [ws EXCEPT ![w].st = "done"]
       /\ stops' = ss
       /\ UNCHANGED stopSequence
  ELSE /\ walks' = ws
       /\ stops' = Append(ss, [walk |-> w, inst |-> stopSequence[Len(stopSequence)],
                               st |-> "queued"])
       /\ UNCHANGED stopSequence

\* _stopNext called by walk w, ws and ss being the walks and the stop calls as
\* the caller leaves them: an empty sequence ends the walk, otherwise the
\* last instance is popped and Q.ninvoke(next, 'stop') queued.
StopNext(w, ws, ss) ==
  IF stopSequence = <<>>
  THEN /\ walks' = [ws EXCEPT ![w].st = "done"]
       /\ stops' = ss
       /\ UNCHANGED stopSequence
  ELSE /\ walks' = ws
       /\ stops' = Append(ss, [walk |-> w, inst |-> stopSequence[Len(stopSequence)],
                               st |-> "queued"])
       /\ stopSequence' = SubSeq(stopSequence, 1, Len(stopSequence) - 1)

\* A process event bound by stopOn is raised: the listener calls _stopNext.
\* logged counts the walk's 'Could not stop service' log lines.
Raise(bound) ==
  /\ Len(walks) < bound
  /\ StopNext(Len(walks) + 1, Append(walks, [st |-> "walking", logged |-> 0]), stops)
  /\ UNCHANGED <<registrations, modules, envVars, confVars, resolveVars, gets, stopped, factoryCalls, completed>>

Trigger == Raise(MaxWalks)

\* The same listener in the program that raises events while a walk is under way.
TriggerAgain == Raise(MaxOverlap)

\* Q.ninvoke(next, 'stop') dispatches: the stop method is called, and may throw.
StopInvoke(k, throws) ==
  /\ stops[k].st = "queued"
  /\ stops' = [stops EXCEPT ![k].st = IF throws THEN "failed" ELSE "running"]
  /\ stopped' = Append(stopped, stops[k].inst)
  /\ UNCHANGED <<registrations, modules, envVars, confVars, resolveVars, gets, stopSequence, walks,
                 factoryCalls, completed>>

\* stop calls done() or done(err).
StopSignal(k, ok) ==
  /\ stops[k].st = "running"
  /\ stops' = [stops EXCEPT ![k].st = IF ok THEN "ok" ELSE "failed"]
  /\ UNCHANGED <<registrations, modules, envVars, confVars, resolveVars, gets, stopSequence, walks, stopped,
                 factoryCalls, completed>>

\* .timeout(self._stopTimeout) fires before stop has signalled.
StopTimeout(k) ==
  /\ stops[k].st = "running"
  /\ stops' = [stops EXCEPT ![k].st = "timedout"]
  /\ UNCHANGED <<registrations, modules, envVars, confVars, resolveVars, gets, stopSequence, walks, stopped,
                 factoryCalls, completed>>

StopSettledEarly(st) == st \in {"running", "ok", "failed", "timedout"}
\* The promise Q.ninvoke(next, 'stop').timeout(...) is settled.
StopSettled(st) == st \in {"ok", "failed", "timedout"}

ContainedOnlySuccess(st) == st = "ok"
\* .fail(function(err) { self._log(...) }) turns every rejection into a
\* fulfilled promise, so .then(_stopNext) always runs.
Contained(st) == TRUE

\* The callbacks chained on a settled stop call: log a failure, go on.  A
\* rejection that is not contained ends the walk (and the process exits).
\* The stop call is "done": nothing waits on it any more.
WalkNext(k) ==
  /\ StopSettled(stops[k].st)
  /\ IF Contained(stops[k].st)
     THEN StopNext(stops[k].walk,
                   [walks EXCEPT ![stops[k].walk].logged =
                                    IF stops[k].st = "ok" THEN @ ELSE @ + 1],
                   [stops EXCEPT ![k].st = "done"])
     ELSE /\ walks' = [walks EXCEPT ![stops[k].walk].st = "rejected"]
          /\ stops' = [stops EXCEPT ![k].st = "done"]
          /\ UNCHANGED stopSequence
  /\ UNCHANGED <<registrations, modules, envVars, confVars, resolveVars, gets, stopped, factoryCalls, completed>>

----------------------------------------------------------------------------
\* define, reset and the settings

\* Container.prototype.define(name, methods): stores the definition.
Define(n) ==
  /\ Calls < MaxCalls
  /\ calls' = calls + 1
  /\ interfaces' = [interfaces EXCEPT ![n] = TRUE]
  /\ returned' = "self"
  /\ UNCHANGED <<registrations, modules, resolveVars, gets, stopSequence, stopVars,
                 factoryCalls, completed, called, outcome, resets, settings>>

\* Container.prototype.debug(enable)
Debug(enable) ==
  /\ Calls < MaxCalls
  /\ calls' = calls + 1
  /\ settings' = [settings EXCEPT !.isDebug = enable]
  /\ returned' = "self"
  /\ UNCHANGED <<registrations, modules, resolveVars, gets, stopSequence, stopVars,
                 factoryCalls, completed, called, outcome, resets, interfaces>>

\* Container.prototype.logTo(logMethod); logTo(null) disables logging.
LogTo(logMethod) ==
  /\ Calls < MaxCalls
  /\ calls' = calls + 1
  /\ settings' = [settings EXCEPT !.logger = logMethod]
  /\ returned' = "self"
  /\ UNCHANGED <<registrations, modules, resolveVars, gets, stopSequence, stopVars,
                 factoryCalls, completed, called, outcome, resets, interfaces>>

\* The timeouts the environment sets.
ShortStopTimeout == 10

\* Container.prototype.stopTimeout(newTimeout): the body has no return statement.
StopTimeoutSet(newTimeout) ==
  /\ Calls < MaxCalls
  /\ calls' = calls + 1
  /\ settings' = [settings EXCEPT !.stopTimeout = newTimeout]
  /\ returned' = "undefined"
  /\ UNCHANGED <<registrations, modules, resolveVars, gets, stopSequence, stopVars,
                 factoryCalls, completed, called, outcome, resets, interfaces>>

ResetRegistrationsKept == registrations
\* this._registrations = {}
ResetRegistrations == [n \in Names |-> 0]

\* Container.prototype.reset: the closures made before (wrappers, module
\* factories, their slots) stay on the heap for whoever still holds them; the
\* container holds none of them any more.
Reset ==
  /\ resets < MaxResets
  /\ resets' = resets + 1
  /\ registrations' = ResetRegistrations
  /\ modules' = {}
  /\ interfaces' = [n \in Names |-> FALSE]
  /\ stopSequence' = <<>>
  /\ returned' = "self"
  /\ UNCHANGED <<resolveVars, gets, stopVars, factoryCalls, completed, called, calls,
                 outcome, settings>>

Next ==
  \/ \E m \in BaseMods : Register(m)
  \/ \E n \in Names : Get(n)
  \/ \E g \in DOMAIN gets : GetTask(g)
  \/ \E g \in DOMAIN gets : GetTaskUnregistered(g)
  \/ \E g \in DOMAIN gets : GetSettle(g)
  \/ \E r \in DOMAIN runs : \E i \in DOMAIN runs[r].reqs : DepGetTask(r, i)
  \/ \E r \in DOMAIN runs : \E i \in DOMAIN runs[r].reqs : DepGetTaskUnregistered(r, i)
  \/ \E r \in DOMAIN runs : \E i \in DOMAIN runs[r].reqs : DepSettle(r, i)
  \/ \E r \in DOMAIN runs : DepsFail(r)
  \/ \E r \in DOMAIN runs : \E res \in FactoryResults : InvokeFactory(r, res)
  \/ \E r \in DOMAIN runs : StartInvoke(r)
  \/ \E r \in DOMAIN runs : \E ok \in BOOLEAN : StartSignal(r, ok)
  \/ \E r \in DOMAIN runs : \E ok \in BOOLEAN : PromiseSettle(r, ok)
  \/ \E w \in DOMAIN wraps : WrapSettle(w)
  \/ Trigger
  \/ \E k \in DOMAIN stops : \E throws \in BOOLEAN : StopInvoke(k, throws)
  \/ \E k \in DOMAIN stops : \E ok \in BOOLEAN : StopSignal(k, ok)
  \/ \E k \in DOMAIN stops : StopTimeout(k)
  \/ \E k \in DOMAIN stops : WalkNext(k)

Spec == Init /\ [][Next]_vars

\* Every queued callback of Q's task queue runs; a start method, a returned
\* promise and a stop call (by its signal or by the timeout timer) settle.
Internal ==
  \/ \E g \in DOMAIN gets : GetTask(g) \/ GetTaskUnregistered(g) \/ GetSettle(g)
  \/ \E r \in DOMAIN runs : \E i \in DOMAIN runs[r].reqs :
        DepGetTask(r, i) \/ DepGetTaskUnregistered(r, i) \/ DepSettle(r, i)
  \/ \E r \in DOMAIN runs : DepsFail(r) \/ StartInvoke(r)
  \/ \E r \in DOMAIN runs : \E res \in FactoryResults : InvokeFactory(r, res)
  \/ \E r \in DOMAIN runs : \E ok \in BOOLEAN : StartSignal(r, ok) \/ PromiseSettle(r, ok)
  \/ \E w \in DOMAIN wraps : WrapSettle(w)
  \/ \E k \in DOMAIN stops : \E b \in BOOLEAN : StopInvoke(k, b) \/ StopSignal(k, b)
  \/ \E k \in DOMAIN stops : StopTimeout(k) \/ WalkNext(k)

LiveSpec == Spec /\ WF_vars(Internal)

\* The program that registers a name again, without and with options.replace.
NextReplace ==
  \/ \E m \in ReplaceMods : Register(m)
  \/ \E n \in Names : Get(n)
  \/ \E g \in DOMAIN gets : GetTask(g)
  \/ \E g \in DOMAIN gets : GetTaskUnregistered(g)
  \/ \E g \in DOMAIN gets : GetSettle(g)
  \/ \E r \in DOMAIN runs : \E i \in DOMAIN runs[r].reqs : DepGetTask(r, i)
  \/ \E r \in DOMAIN runs : \E i \in DOMAIN runs[r].reqs : DepGetTaskUnregistered(r, i)
  \/ \E r \in DOMAIN runs : \E i \in DOMAIN runs[r].reqs : DepSettle(r, i)
  \/ \E r \in DOMAIN runs : DepsFail(r)
  \/ \E r \in DOMAIN runs : \E res \in FactoryResults : InvokeFactory(r, res)
  \/ \E r \in DOMAIN runs : StartInvoke(r)
  \/ \E r \in DOMAIN runs : \E ok \in BOOLEAN : StartSignal(r, ok)
  \/ \E r \in DOMAIN runs : \E ok \in BOOLEAN : PromiseSettle(r, ok)
  \/ \E w \in DOMAIN wraps : WrapSettle(w)

SpecReplace == Init /\ [][NextReplace]_vars

\* The program that registers one factory under two names and defines
\* interfaces, and makes register calls that register rejects.
NextAlias ==
  \/ \E m \in AliasMods : Register(m)
  \/ \E n \in Names : Get(n)
  \/ \E n \in Names : Define(n)
  \/ \E g \in DOMAIN gets : GetTask(g)
  \/ \E g \in DOMAIN gets : GetTaskUnregistered(g)
  \/ \E g \in DOMAIN gets : GetSettle(g)
  \/ \E r \in DOMAIN runs : \E res \in FactoryResults : InvokeFactory(r, res)
  \/ \E r \in DOMAIN runs : StartInvoke(r)
  \/ \E r \in DOMAIN runs : \E ok \in BOOLEAN : StartSignal(r, ok)
  \/ \E r \in DOMAIN runs : \E ok \in BOOLEAN : PromiseSettle(r, ok)
  \/ \E w \in DOMAIN wraps : WrapSettle(w)

SpecAlias == Init /\ [][NextAlias]_vars

\* The program that changes the settings and resets the container.
NextReset ==
  \/ \E m \in ResetMods : Register(m)
  \/ \E n \in Names : Get(n)
  \/ \E enable \in BOOLEAN : Debug(enable)
  \/ \E logMethod \in {"custom", "null"} : LogTo(logMethod)
  \/ \E newTimeout \in {ShortStopTimeout} : StopTimeoutSet(newTimeout)
  \/ Reset
  \/ \E g \in DOMAIN gets : GetTask(g)
  \/ \E g \in DOMAIN gets : GetTaskUnregistered(g)
  \/ \E g \in DOMAIN gets : GetSettle(g)
  \/ \E r \in DOMAIN runs : \E res \in FactoryResults : InvokeFactory(r, res)
  \/ \E r \in DOMAIN runs : StartInvoke(r)
  \/ \E r \in DOMAIN runs : \E ok \in BOOLEAN : StartSignal(r, ok)
  \/ \E r \in DOMAIN runs : \E ok \in BOOLEAN : PromiseSettle(r, ok)
  \/ \E w \in DOMAIN wraps : WrapSettle(w)

SpecReset == Init /\ [][NextReset]_vars

\* The program whose registered dependency graph has cycles.
NextCycle ==
  \/ \E m \in CycleMods : Register(m)
  \/ \E n \in Names : Get(n)
  \/ \E g \in DOMAIN gets : GetTask(g)
  \/ \E g \in DOMAIN gets : GetTaskUnregistered(g)
  \/ \E g \in DOMAIN gets : GetSettle(g)
  \/ \E r \in DOMAIN runs : \E i \in DOMAIN runs[r].reqs : DepGetTask(r, i)
  \/ \E r \in DOMAIN runs : \E i \in DOMAIN runs[r].reqs : DepGetTaskUnregistered(r, i)
  \/ \E r \in DOMAIN runs : \E i \in DOMAIN runs[r].reqs : DepSettle(r, i)
  \/ \E r \in DOMAIN runs : DepsFail(r)
  \/ \E r \in DOMAIN runs : \E res \in FactoryResults : InvokeFactory(r, res)
  \/ \E r \in DOMAIN runs : StartInvoke(r)
  \/ \E r \in DOMAIN runs : \E ok \in BOOLEAN : StartSignal(r, ok)
  \/ \E r \in DOMAIN runs : \E ok \in BOOLEAN : PromiseSettle(r, ok)
  \/ \E w \in DOMAIN wraps : WrapSettle(w)

SpecCycle == Init /\ [][NextCycle]_vars

\* The program that registers a transient service over a singleton.
NextTransient ==
  \/ \E m \in TransientMods : Register(m)
  \/ \E n \in Names : Get(n)
  \/ \E g \in DOMAIN gets : GetTask(g)
  \/ \E g \in DOMAIN gets : GetTaskUnregistered(g)
  \/ \E g \in DOMAIN gets : GetSettle(g)
  \/ \E r \in DOMAIN runs : \E i \in DOMAIN runs[r].reqs : DepGetTask(r, i)
  \/ \E r \in DOMAIN runs : \E i \in DOMAIN runs[r].reqs : DepGetTaskUnregistered(r, i)
  \/ \E r \in DOMAIN runs : \E i \in DOMAIN runs[r].reqs : DepSettle(r, i)
  \/ \E r \in DOMAIN runs : DepsFail(r)
  \/ \E r \in DOMAIN runs : \E res \in FactoryResults : InvokeFactory(r, res)
  \/ \E r \in DOMAIN runs : StartInvoke(r)
  \/ \E r \in DOMAIN runs : \E ok \in BOOLEAN : StartSignal(r, ok)
  \/ \E r \in DOMAIN runs : \E ok \in BOOLEAN : PromiseSettle(r, ok)
  \/ \E w \in DOMAIN wraps : WrapSettle(w)

SpecTransient == Init /\ [][NextTransient]_vars

\* The program whose stop events are raised again while a walk is under way.
NextWalks ==
  \/ \E m \in WalkMods : Register(m)
  \/ \E n \in Names : Get(n)
  \/ \E g \in DOMAIN gets : GetTask(g)
  \/ \E g \in DOMAIN gets : GetTaskUnregistered(g)
  \/ \E g \in DOMAIN gets : GetSettle(g)
  \/ \E r \in DOMAIN runs : \E res \in FactoryResults : InvokeFactory(r, res)
  \/ \E r \in DOMAIN runs : StartInvoke(r)
  \/ \E r \in DOMAIN runs : \E ok \in BOOLEAN : StartSignal(r, ok)
  \/ \E r \in DOMAIN runs : \E ok \in BOOLEAN : PromiseSettle(r, ok)
  \/ \E w \in DOMAIN wraps : WrapSettle(w)
  \/ TriggerAgain
  \/ \E k \in DOMAIN stops : \E throws \in BOOLEAN : StopInvoke(k, throws)
  \/ \E k \in DOMAIN stops : \E ok \in BOOLEAN : StopSignal(k, ok)
  \/ \E k \in DOMAIN stops : StopTimeout(k)
  \/ \E k \in DOMAIN stops : WalkNext(k)

SpecWalks == Init /\ [][NextWalks]_vars

----------------------------------------------------------------------------
\* Vocabulary of the properties

Singletons == {m \in ModIds : Catalog[m].lifecycle = "singleton"}

\* The wrapper promises that callers (user gets, dependency gets) follow.
CallerWraps ==
  ({gets[g].wrap : g \in DOMAIN gets}
   \cup UNION {{runs[r].reqs[i].wrap : i \in DOMAIN runs[r].reqs} : r \in DOMAIN runs})
  \ {NoWrap}

MidResolution(r) == runs[r].stage \in {"starting", "startwait", "awaiting"}

----------------------------------------------------------------------------
\* C1: a singleton's raw factory is invoked at most once per registration and
\* every caller, direct or as a dependency, before, during or after the
\* resolution, follows the one result cached in the slot: the slot holds that
\* result from the turn of the first call on.
C1_SingletonOnce ==
  \A m \in Singletons :
    /\ factoryCalls[m] <= 1
    /\ RunsOf(m) <= 1
    /\ \A w \in CallerWraps :
         w[1] = m => /\ mslot[m] # 0
                     /\ wslot[<<m, w[2]>>] = w[3]
                     /\ wraps[w].run = <<m, mslot[m]>>

\* A direct caller and a dependency caller of one module, whose factory has
\* been invoked and whose startup is still under way.
C1_Witness ==
  \E g \in DOMAIN gets : \E r \in DOMAIN runs : \E i \in DOMAIN runs[r].reqs :
    /\ gets[g].wrap # NoWrap
    /\ runs[r].reqs[i].wrap[1] = gets[g].wrap[1]
    /\ MidResolution(wraps[gets[g].wrap].run)
    /\ factoryCalls[gets[g].wrap[1]] = 1

----------------------------------------------------------------------------
\* The runs whose results run r was given as dependencies, and the runs a
\* user get g depends on, directly or not.
DepRuns(r) ==
  {wraps[runs[r].reqs[i].wrap].run :
     i \in {j \in DOMAIN runs[r].reqs : runs[r].reqs[j].wrap # NoWrap}}

RECURSIVE Closure(_, _)
Closure(S, n) ==
  IF n = 0 THEN S ELSE Closure(S \cup UNION {DepRuns(r) : r \in S}, n - 1)

Below(r) == Closure(DepRuns(r), Cardinality(DOMAIN runs))

Reach(g) ==
  IF gets[g].wrap = NoWrap THEN {}
  ELSE LET root == wraps[gets[g].wrap].run IN {root} \cup Below(root)

\* A name that had no registration when it was looked up.
UnregisteredDep(r) ==
  \E i \in DOMAIN runs[r].reqs : runs[r].reqs[i].st = "err" /\ runs[r].reqs[i].wrap = NoWrap

\* The raw factory of run r was invoked and its result failed.
FactoryFailed(r) == runs[r].stage = "err" /\ runs[r].res.kind # "none"

\* Something under get g is unregistered, fails, or lies on a cycle.
Excused(g) ==
  \/ gets[g].st = "err" /\ gets[g].wrap = NoWrap
  \/ \E r \in Reach(g) : UnregisteredDep(r) \/ FactoryFailed(r) \/ r \in Below(r)

\* C2: resolving the root of a registered acyclic graph of singletons whose
\* factories all succeed eventually succeeds, and then the raw factory of every
\* service it depends on, directly or not, has been invoked exactly once.
\* (Success and excuses are stable and the gets are finitely many, so "every
\* get leads to success or an excuse" is "eventually always, every get made
\* has succeeded or is excused".)
C2_GraphResolvedOnce ==
  /\ [](\A g \in DOMAIN gets :
          gets[g].st = "ok" =>
            \A r \in Reach(g) :
              /\ factoryCalls[r[1]] = 1
              /\ runs[r].stage = "ok"
              /\ \A i \in DOMAIN runs[r].reqs :
                   /\ runs[r].reqs[i].wrap # NoWrap
                   /\ runs[r].reqs[i].wrap[2] = Catalog[r[1]].deps[i])
  /\ <>[](\A g \in DOMAIN gets : gets[g].st = "ok" \/ Excused(g))

\* get("a") has succeeded where a depends on b and c, and b on c.
C2_Witness ==
  \E g \in DOMAIN gets :
    /\ gets[g].st = "ok"
    /\ Cardinality(Reach(g)) = 3
    /\ \E r \in Reach(g) : Catalog[r[1]].deps = <<"c">>
    /\ \A r \in Reach(g) : factoryCalls[r[1]] = 1

----------------------------------------------------------------------------
\* C3: each member of the stop sequence is an instance whose startup has
\* completed successfully (never one whose start is still to signal, never one
\* whose startup failed).
C3_StopSequenceStarted ==
  \A i \in DOMAIN stopSequence : runs[stopSequence[i]].stage = "ok"

\* Position of instance x in sequence s (0: absent).
Pos(s, x) == IF \E i \in DOMAIN s : s[i] = x THEN CHOOSE i \in DOMAIN s : s[i] = x ELSE 0

\* C4: the stop sequence is ordered by the completion time of startup: of two
\* members that have both completed startup, the one nearer the end (stopped
\* first by the walk, which pops from the end) completed later.
C4_StopSequenceByCompletion ==
  \A i, j \in DOMAIN stopSequence :
    (i < j /\ Pos(completed, stopSequence[i]) # 0 /\ Pos(completed, stopSequence[j]) # 0)
      => Pos(completed, stopSequence[i]) < Pos(completed, stopSequence[j])

----------------------------------------------------------------------------
StopsOf(w) == {k \in DOMAIN stops : stops[k].walk = w}
StopInvoked == {stopped[i] : i \in DOMAIN stopped}

C6_WalkSequential ==
  /\ [](\A k1, k2 \in DOMAIN stops :
          (k1 # k2 /\ stops[k1].walk = stops[k2].walk)
            => (stops[k1].st = "done" \/ stops[k2].st = "done"))
  /\ [][\A k \in DOMAIN stops' :
          k \notin DOMAIN stops =>
            \A j \in DOMAIN stops :
              stops[j].walk = stops'[k].walk
                => stops[j].st \in {"ok", "failed", "timedout", "done"}]_vars

\* A walk is waiting on its second stop call, the first one handled.
C6_Witness ==
  \E k1, k2 \in DOMAIN stops :
    /\ k1 < k2 /\ stops[k1].walk = stops[k2].walk
    /\ stops[k1].st = "done" /\ stops[k2].st = "running"

----------------------------------------------------------------------------
\* The callers (user gets, dependency gets of runs) that follow wrapper promise w.
GetsOn(w) == {g \in DOMAIN gets : gets[g].wrap = w}
ReqsOn(w) ==
  {p \in (DOMAIN runs) \X {1, 2} :
     p[2] \in DOMAIN runs[p[1]].reqs /\ runs[p[1]].reqs[p[2]].wrap = w}
WrapsOn(r) == {w \in DOMAIN wraps : wraps[w].run = r}

FactoryInvoked(r) == runs[r].res.kind # "none"

\* The result of run r has been handed on: by a wrapper promise, to a user
\* get, or into the dependencies of a run.
Delivered(r) ==
  \E w \in WrapsOn(r) :
    \/ wraps[w].st = "ok"
    \/ \E g \in GetsOn(w) : gets[g].st = "ok"
    \/ \E p \in ReqsOn(w) : runs[p[1]].reqs[p[2]].st = "ok" \/ FactoryInvoked(p[1])

\* C7: a run one of whose dependencies had no registration never invokes its
\* raw factory, and no caller of it succeeds; the failure arrives through the
\* promise (the state "err"), never as a throw of get.
C7_UnregisteredDependency ==
  \A r \in DOMAIN runs :
    UnregisteredDep(r) =>
      /\ ~FactoryInvoked(r)
      /\ runs[r].stage \in {"deps", "err"}
      /\ r[1] \in Singletons => factoryCalls[r[1]] = 0
      /\ ~Delivered(r)

\* A user get has failed because one dependency of its service was
\* unregistered while another one resolved.
C7_Witness ==
  \E g \in DOMAIN gets :
    /\ gets[g].st = "err" /\ gets[g].wrap # NoWrap
    /\ LET r == wraps[gets[g].wrap].run
       IN /\ UnregisteredDep(r)
          /\ \E i \in DOMAIN runs[r].reqs : runs[r].reqs[i].st = "ok"

\* C8: a raw factory is invoked only once every declared dependency has
\* resolved, and gets for each declared name that name's ready instance; a
\* run with a failed dependency never invokes its factory.
C8_FactoryAfterDependencies ==
  \A r \in DOMAIN runs :
    /\ FactoryInvoked(r) =>
         \A i \in DOMAIN runs[r].reqs :
           LET req == runs[r].reqs[i]
           IN /\ req.st = "ok"
              /\ req.wrap # NoWrap
              /\ req.wrap[2] = Catalog[r[1]].deps[i]
              /\ wraps[req.wrap].st = "ok"
              /\ runs[wraps[req.wrap].run].stage = "ok"
    /\ DepsFailed(r) => ~FactoryInvoked(r)

\* The factory at the head of a chain of three has been invoked.
C8_Witness ==
  \E r \in DOMAIN runs :
    /\ FactoryInvoked(r)
    /\ \E d \in DepRuns(r) : DepRuns(d) # {}

\* C9: the start method of an object a factory returned is invoked at most
\* once, and exactly once and with success before the object is handed to any
\* caller or dependent factory; after a failed start it is handed to none.
C9_StartBeforeDelivery ==
  \A r \in DOMAIN runs :
    /\ runs[r].started <= 1
    /\ runs[r].res.kind # "start" => runs[r].started = 0
    /\ runs[r].res.kind = "start" =>
         /\ runs[r].stage = "ok" => runs[r].started = 1
         /\ Delivered(r) => runs[r].stage = "ok" /\ runs[r].started = 1

\* A started object has been given to a user get and to a dependent factory.
C9_Witness ==
  \E r \in DOMAIN runs :
    /\ runs[r].res.kind = "start" /\ runs[r].started = 1
    /\ \E w \in WrapsOn(r) :
         /\ \E g \in GetsOn(w) : gets[g].st = "ok"
    /\ \E w \in WrapsOn(r) : \E p \in ReqsOn(w) : FactoryInvoked(p[1])

\* C10: a failed singleton resolution stays on its slot: the slot and its
\* failed promise never change, no further run or factory call of the module
\* happens, every caller bound to the name meets that promise, and none of
\* them succeeds.
C10_FailureSticks ==
  /\ [](\A w \in DOMAIN wraps :
          wraps[w].st = "err" =>
            /\ \A g \in GetsOn(w) : gets[g].st \in {"waiting", "err"}
            /\ \A p \in ReqsOn(w) : runs[p[1]].reqs[p[2]].st \in {"waiting", "err"})
  /\ [][\A m \in Singletons : \A n \in Names :
          WrapSlotState(m, n) = "err" =>
            /\ wslot'[<<m, n>>] = wslot[<<m, n>>]
            /\ wraps'[<<m, n, wslot[<<m, n>>]>>].st = "err"
            /\ DOMAIN runs' = DOMAIN runs
               \/ \A r \in DOMAIN runs' : r \notin DOMAIN runs => r[1] # m
            /\ factoryCalls'[m] = factoryCalls[m]
            /\ \A g \in DOMAIN gets :
                 (gets[g].st = "queued" /\ gets'[g].st = "waiting"
                  /\ gets'[g].wrap[1] = m /\ gets'[g].wrap[2] = n)
                   => gets'[g].wrap[3] = wslot[<<m, n>>]]_vars

\* Two user gets met the failure of one resolution, which came from a
\* dependency that was unregistered then and is registered now.
C10_Witness ==
  \E g1, g2 \in DOMAIN gets :
    /\ g1 # g2 /\ gets[g1].st = "err" /\ gets[g2].st = "err"
    /\ gets[g1].wrap # NoWrap /\ gets[g1].wrap = gets[g2].wrap
    /\ LET r == wraps[gets[g1].wrap].run
       IN \E i \in DOMAIN runs[r].reqs :
            /\ runs[r].reqs[i].st = "err" /\ runs[r].reqs[i].wrap = NoWrap
            /\ registrations[Catalog[r[1]].deps[i]] # 0

----------------------------------------------------------------------------
\* The register call of Catalog made by this step, if any.
Registering(m) == m \notin called /\ m \in called'

NamesOf(m) == {Catalog[m].names[i] : i \in DOMAIN Catalog[m].names}

\* The lookup of user get g happens in this step and finds a registration.
LooksUp(g) == g \in DOMAIN gets /\ gets[g].st = "queued" /\ gets'[g].st = "waiting"

\* C11: a register call without replace that names a registered name throws
\* and every registered name keeps its registration and its slots; a register
\* call with replace returns and owns each of its names; and a get looks up
\* the registration current at that turn: it follows a wrapper and a run of
\* the module registered last, whose raw factory is the only one its run
\* invokes.
C11_ReplaceRegistration ==
  /\ [][\A m \in ModIds :
          (Registering(m) /\ ~RejectsFactory(m) /\ ~UnsupportedLifecycle(m)) =>
            /\ (~Catalog[m].replace /\ \E n \in NamesOf(m) : registrations[n] # 0) =>
                 /\ outcome'[m] = "threw"
                 /\ \A n \in Names : registrations[n] # 0 => registrations'[n] = registrations[n]
                 /\ UNCHANGED <<mslot, wslot, runs, wraps, gets, stopSequence>>
            /\ Catalog[m].replace =>
                 /\ outcome'[m] = "self"
                 /\ \A n \in NamesOf(m) : registrations'[n] = m]_vars
  /\ [][\A g \in DOMAIN gets :
          LooksUp(g) =>
            LET m == registrations[gets[g].name]
            IN /\ gets'[g].wrap[1] = m
               /\ gets'[g].wrap[2] = gets[g].name
               /\ wraps'[gets'[g].wrap].run[1] = m]_vars
  /\ [](\A r \in DOMAIN runs : FactoryInvoked(r) => factoryCalls[r[1]] >= 1)

\* b was registered, resolved and cached, then registered again with replace:
\* a later get of b received the instance of the new factory.
C11_Witness ==
  \E g1, g2 \in DOMAIN gets :
    /\ gets[g1].name = "b" /\ gets[g2].name = "b"
    /\ gets[g1].st = "ok" /\ gets[g2].st = "ok"
    /\ gets[g1].wrap[1] = 2 /\ gets[g2].wrap[1] = 5
    /\ Catalog[5].replace /\ outcome[5] = "self"
    /\ factoryCalls[2] = 1 /\ factoryCalls[5] = 1

----------------------------------------------------------------------------
\* C12: a register call with a lifecycle the container does not know returns
\* (the error is left to the first resolution): it never throws.
C12_LifecycleCheckedAtResolution ==
  \A m \in called : UnsupportedLifecycle(m) => outcome[m] = "self"

----------------------------------------------------------------------------
\* C13: a register call whose factory is not a function throws inside
\* register and changes nothing: the registration table, the modules, the
\* slots, the promises and the stop sequence are as before the call, and no
\* resolution of that call ever exists.
C13_NonCallableFactory ==
  /\ [][\A m \in ModIds :
          (Registering(m) /\ ~Catalog[m].callable) =>
            /\ outcome'[m] = "threw"
            /\ UNCHANGED <<registrations, modules, mslot, wslot, runs, wraps, gets,
                           stopSequence>>]_vars
  /\ [](\A m \in called :
          ~Catalog[m].callable =>
            /\ outcome[m] = "threw"
            /\ m \notin modules
            /\ RunsOf(m) = 0
            /\ \A n \in Names : registrations[n] # m)

\* register was called with a non-callable factory for c while a and b were
\* registered, resolved and the instance was in the stop sequence.
C13_Witness ==
  /\ 8 \in called /\ ~Catalog[8].callable /\ outcome[8] = "threw"
  /\ registrations["a"] = 6 /\ registrations["c"] = 0
  /\ mslot[6] # 0
  /\ stopSequence # <<>>

----------------------------------------------------------------------------
\* The register calls that pass several names.
Aliased == {m \in Singletons : Len(Catalog[m].names) > 1}

\* How many times instance r is in the stop sequence.
TimesPushed(r) == Cardinality({i \in DOMAIN stopSequence : stopSequence[i] = r})

\* C14: the names of one register call share one module slot: whichever names
\* are got, in whatever order, there is at most one run of the module, the
\* wrapper of every name follows it, the raw factory is invoked at most once,
\* start at most once, and the instance is pushed at most once.
C14_AliasesShareSlot ==
  \A m \in Aliased :
    /\ RunsOf(m) <= 1
    /\ factoryCalls[m] <= 1
    /\ \A w \in DOMAIN wraps : w[1] = m => wraps[w].run = <<m, mslot[m]>>
    /\ \A r \in DOMAIN runs : r[1] = m => runs[r].started <= 1 /\ TimesPushed(r) <= 1

\* Both names of one register call were got and received the one started,
\* stoppable instance.
C14_Witness ==
  \E g1, g2 \in DOMAIN gets :
    /\ gets[g1].name = "a" /\ gets[g2].name = "b"
    /\ gets[g1].st = "ok" /\ gets[g2].st = "ok"
    /\ gets[g1].wrap[1] = 6 /\ gets[g2].wrap[1] = 6
    /\ wraps[gets[g1].wrap].run = wraps[gets[g2].wrap].run
    /\ LET r == wraps[gets[g1].wrap].run
       IN runs[r].res = [kind |-> "start", stop |-> TRUE] /\ runs[r].started = 1
          /\ TimesPushed(r) = 1

----------------------------------------------------------------------------
\* The modules whose slots the container can still reach.
ContainerModules == modules \cup ({registrations[n] : n \in Names} \ {0})

\* C15: a reset call leaves the container with no registration, no module
\* (hence no slot) and an empty stop sequence, and with its settings as they
\* were; a register call whose names are all free, as every name is after a
\* reset, returns without replace; and a get follows a run of the module
\* registered for its name at that turn, which is a module registered since
\* the last reset.
C15_ResetClears ==
  /\ [][resets' = resets + 1 =>
          /\ \A n \in Names : registrations'[n] = 0
          /\ modules' = {}
          /\ ContainerModules' = {}
          /\ stopSequence' = <<>>
          /\ settings' = settings]_vars
  /\ [][\A m \in ModIds :
          (Registering(m) /\ Catalog[m].callable /\ Catalog[m].lifecycle \in Lifecycles
           /\ \A n \in NamesOf(m) : registrations[n] = 0) =>
            /\ outcome'[m] = "self"
            /\ \A n \in NamesOf(m) : registrations'[n] = m]_vars
  /\ [][\A g \in DOMAIN gets :
          LooksUp(g) =>
            /\ registrations[gets[g].name] \in modules
            /\ wraps'[gets'[g].wrap].run[1] = registrations[gets[g].name]]_vars
  /\ [](ContainerModules \subseteq modules)

\* b was registered and its instance cached; after a reset b was registered
\* again without replace and a get of b received the new factory's instance.
C15_Witness ==
  \E g1, g2 \in DOMAIN gets :
    /\ resets = 1
    /\ gets[g1].name = "b" /\ gets[g2].name = "b"
    /\ gets[g1].st = "ok" /\ gets[g2].st = "ok"
    /\ gets[g1].wrap[1] = 2 /\ gets[g2].wrap[1] = 9
    /\ ~Catalog[9].replace /\ outcome[9] = "self"
    /\ modules = {9}
    /\ factoryCalls[2] = 1 /\ factoryCalls[9] = 1

----------------------------------------------------------------------------
\* C16: the gets of all the dependencies of a run are issued in the turn that
\* creates the run, and the lookup of each is ready to run from then on,
\* whatever the state of its siblings: no dependency waits for another.
C16_FanOut ==
  /\ [][\A r \in DOMAIN runs' :
          r \notin DOMAIN runs =>
            \A i \in DOMAIN runs'[r].reqs : runs'[r].reqs[i].st = "queued"]_vars
  /\ [](\A r \in DOMAIN runs : \A i \in DOMAIN runs[r].reqs :
          /\ runs[r].reqs[i].st \in {"queued", "waiting", "ok", "err"}
          /\ runs[r].reqs[i].st = "queued" =>
               ENABLED (DepGetTask(r, i) \/ DepGetTaskUnregistered(r, i)))

\* Both dependencies of a are in flight: the factories of b and of c have been
\* invoked and neither startup has completed.
C16_Witness ==
  \E r \in DOMAIN runs :
    /\ Catalog[r[1]].deps = <<"b", "c">>
    /\ runs[r].reqs[1].st = "waiting" /\ runs[r].reqs[2].st = "waiting"
    /\ wraps[runs[r].reqs[1].wrap].run # wraps[runs[r].reqs[2].wrap].run
    /\ Catalog[runs[r].reqs[1].wrap[1]].deps = <<>>
    /\ MidResolution(wraps[runs[r].reqs[1].wrap].run)
    /\ MidResolution(wraps[runs[r].reqs[2].wrap].run)

----------------------------------------------------------------------------
\* C17: every method other than get and start returns the container: the
\* last call of debug, logTo, stopTimeout, reset or define returned it, and so
\* did every register call that did not throw.
C17_Chainable ==
  /\ returned \in {"none", "self"}
  /\ \A m \in called : outcome[m] \in {"self", "threw"}

----------------------------------------------------------------------------
\* Wrapper promise w is fulfilled in this step.
Fulfils(w) == w \in DOMAIN wraps /\ wraps[w].st = "pending" /\ wraps'[w].st = "ok"

\* C18: when the first resolution of a name completes, its wrapper promise
\* carries the instance wrapped by the definition stored under that name at
\* that turn, if there is one, and the raw instance otherwise, whenever the
\* definition was stored (before or after register); the value stays as it
\* is, every get of the name receives it, and the wrappers of all the names of
\* one register call follow the same run.
C18_InterfaceWrapping ==
  /\ [][\A w \in DOMAIN wraps :
          /\ Fulfils(w) => wraps'[w].wrapped = interfaces[w[2]]
          /\ wraps[w].st # "pending" => wraps'[w] = wraps[w]]_vars
  /\ [](\A w \in DOMAIN wraps :
          /\ wraps[w].st # "ok" => ~wraps[w].wrapped
          /\ wraps[w].run = <<w[1], mslot[w[1]]>>
          /\ \A g \in GetsOn(w) : gets[g].name = w[2] /\ wslot[<<w[1], w[2]>>] = w[3])

\* One factory registered as a and b, a definition stored for a only: get a
\* received the wrapped instance, get b the raw one, of the same run.
C18_Witness ==
  \E g1, g2 \in DOMAIN gets :
    /\ gets[g1].name = "a" /\ gets[g2].name = "b"
    /\ gets[g1].st = "ok" /\ gets[g2].st = "ok"
    /\ interfaces["a"] /\ ~interfaces["b"]
    /\ wraps[gets[g1].wrap].wrapped /\ ~wraps[gets[g2].wrap].wrapped
    /\ wraps[gets[g1].wrap].run = wraps[gets[g2].wrap].run
    /\ runs[wraps[gets[g1].wrap].run].res.kind = "plain"

----------------------------------------------------------------------------
\* The instances a shutdown walk has popped.
Popped == {stops[k].inst : k \in DOMAIN stops}

InStopSequence(r) == \E i \in DOMAIN stopSequence : stopSequence[i] = r

\* C19: an instance with a stop method whose resolution has succeeded is in
\* the stop sequence unless a walk has popped it, whether the factory returned
\* it directly, returned it with a start method, or returned a promise of it.
C19_StoppableInStopSequence ==
  \A r \in DOMAIN runs :
    (runs[r].stage = "ok" /\ runs[r].res.stop) => (InStopSequence(r) \/ r \in Popped)

----------------------------------------------------------------------------
\* The runs started for the dependencies of a run one of whose dependencies
\* has failed.
SiblingsOfFailure == UNION {DepRuns(r) : r \in {q \in DOMAIN runs : DepsFailed(q)}}

\* The promise of a run with a failed dependency rejects whatever its other
\* dependencies are doing.
FailsFast ==
  \A r \in DOMAIN runs :
    (runs[r].stage = "deps" /\ DepsFailed(r)) => ENABLED DepsFail(r)

\* A started resolution is never abandoned: it stays on the heap and in its
\* module's slot, and a settled one keeps its outcome.
NeverCancelled ==
  [][/\ \A r \in DOMAIN runs :
          /\ r \in DOMAIN runs'
          /\ RunState(r) # "pending" => runs'[r].stage = runs[r].stage
     /\ \A m \in Singletons : mslot[m] # 0 => mslot'[m] = mslot[m]]_vars

\* C20: a run with a failed dependency fails without waiting for the other
\* dependencies; their resolutions are not cancelled and stay cached; and
\* each of them that succeeds with a stoppable instance has that instance in
\* the stop sequence (unless a walk has popped it).
C20_FailFastNoCancel ==
  /\ [](FailsFast)
  /\ NeverCancelled
  /\ [](\A d \in SiblingsOfFailure :
          (runs[d].stage = "ok" /\ runs[d].res.stop) => (InStopSequence(d) \/ d \in Popped))

----------------------------------------------------------------------------
\* Run r waits, directly or through other runs, for its own result.
OnCycle(r) == r \in Below(r)

\* Run r and every caller of it are pending.
Hangs(r) ==
  /\ runs[r].stage = "deps"
  /\ \A w \in WrapsOn(r) :
       wraps[w].st = "pending" /\ \A g \in GetsOn(w) : gets[g].st = "waiting"

\* C21 as stated: the resolution of a service on a cycle of the registered
\* dependency graph neither succeeds nor fails, nor does any get of it, and
\* its raw factory is not invoked.
C21_CycleNeverCompletes ==
  \A r \in DOMAIN runs : OnCycle(r) => (Hangs(r) /\ ~FactoryInvoked(r))

\* C21 amended: the resolution of a service on a cycle never succeeds, its raw
\* factory is never invoked and its result reaches no caller; it stays pending,
\* with every get of it, as long as none of its dependencies has failed, and
\* it fails only with the failure of a dependency (no cycle error exists).
C21_CycleNeverSucceeds ==
  \A r \in DOMAIN runs :
    OnCycle(r) =>
      /\ ~FactoryInvoked(r)
      /\ factoryCalls[r[1]] = 0
      /\ runs[r].stage \in {"deps", "err"}
      /\ ~Delivered(r)
      /\ \A w \in WrapsOn(r) : \A g \in GetsOn(w) : gets[g].st # "ok"
      /\ ~DepsFailed(r) => Hangs(r)

\* b depends on c and c on b; get b has looked b up, both resolutions wait
\* for each other.
C21_Witness ==
  \E g \in DOMAIN gets : \E r, q \in DOMAIN runs :
    /\ r # q /\ q \in DepRuns(r) /\ r \in DepRuns(q)
    /\ gets[g].st = "waiting" /\ wraps[gets[g].wrap].run = r
    /\ Hangs(r) /\ Hangs(q)

----------------------------------------------------------------------------
\* The register calls with options.lifecycle = 'transient'.
Transients == {m \in ModIds : Catalog[m].lifecycle = "transient"}

\* The user gets that looked a name up and found module m.
LookedUp(m) == {g \in DOMAIN gets : gets[g].wrap # NoWrap /\ gets[g].wrap[1] = m}

\* C22: a transient registration has no slot: every get of its name starts a
\* wrapper and a run of its own, each run resolves the declared dependencies
\* and invokes the raw factory at most once (once per get when all have gone
\* through), and the singleton dependencies keep their one run and one
\* factory invocation across all those runs.
C22_TransientReruns ==
  /\ \A m \in Transients :
       /\ mslot[m] = 0
       /\ \A n \in Names : wslot[<<m, n>>] = 0
       /\ \A g1, g2 \in LookedUp(m) :
            g1 # g2 => /\ gets[g1].wrap # gets[g2].wrap
                       /\ wraps[gets[g1].wrap].run # wraps[gets[g2].wrap].run
       /\ RunsOf(m) = Cardinality(LookedUp(m))
       /\ factoryCalls[m] = Cardinality({r \in DOMAIN runs : r[1] = m /\ FactoryInvoked(r)})
       /\ \A r \in DOMAIN runs :
            (r[1] = m /\ FactoryInvoked(r)) =>
              \A i \in DOMAIN runs[r].reqs :
                /\ runs[r].reqs[i].st = "ok"
                /\ runs[r].reqs[i].wrap[2] = Catalog[m].deps[i]
  /\ \A d \in Singletons :
       /\ factoryCalls[d] <= 1
       /\ RunsOf(d) <= 1
       /\ \A r \in DOMAIN runs : \A i \in DOMAIN runs[r].reqs :
            (runs[r].reqs[i].wrap # NoWrap /\ runs[r].reqs[i].wrap[1] = d)
              => wraps[runs[r].reqs[i].wrap].run = <<d, mslot[d]>>

\* Two gets of the transient a have succeeded with two instances, made by two
\* invocations of its factory over the one instance of the singleton c.
C22_Witness ==
  \E g1, g2 \in DOMAIN gets :
    /\ g1 # g2 /\ gets[g1].st = "ok" /\ gets[g2].st = "ok"
    /\ gets[g1].wrap[1] = 13 /\ gets[g2].wrap[1] = 13
    /\ Catalog[13].lifecycle = "transient"
    /\ wraps[gets[g1].wrap].run # wraps[gets[g2].wrap].run
    /\ factoryCalls[13] = 2 /\ factoryCalls[1] = 1
    /\ DepRuns(wraps[gets[g1].wrap].run) = DepRuns(wraps[gets[g2].wrap].run)

----------------------------------------------------------------------------
\* C23: a register call that throws leaves the registration table as it was
\* before the call: none of its names has become registered.
C23_FailedRegisterFrame ==
  [][\A m \in ModIds :
       (Registering(m) /\ outcome'[m] = "threw") => registrations' = registrations]_vars

----------------------------------------------------------------------------
\* The stop calls that have been dispatched: their stop method was invoked.
Invoked == {k \in DOMAIN stops : stops[k].st # "queued"}

\* The walks that are waiting on a stop call that has not signalled.
WaitingWalks == {stops[k].walk : k \in {j \in DOMAIN stops : stops[j].st = "running"}}

\* C24: whatever the number of shutdown triggers, and also when one is raised
\* while an earlier walk waits on a stop call, no stop-sequence entry has its
\* stop method invoked twice, and an entry taken by a walk is no longer in the
\* sequence when its stop is invoked.
C24_StopInvokedAtMostOnce ==
  /\ \A i, j \in DOMAIN stopped : i # j => stopped[i] # stopped[j]
  /\ \A k, l \in DOMAIN stops : k # l => stops[k].inst # stops[l].inst
  /\ \A k \in DOMAIN stops : ~InStopSequence(stops[k].inst)

\* Two walks overlap: the first still waits on its stop call when the second,
\* triggered meanwhile, has had the stop of another entry invoked.
C24_Witness ==
  /\ Len(walks) = 2
  /\ 1 \in WaitingWalks
  /\ \E k \in Invoked : stops[k].walk = 2
  /\ Len(stopped) = 2

----------------------------------------------------------------------------
\* C25: the stop sequence only holds instances produced by factories that are
\* registered in the container's current state, that is since the last reset:
\* a resolution in flight when reset was called adds nothing to it.
C25_ResetIsolatesStopSequence ==
  \A i \in DOMAIN stopSequence : stopSequence[i][1] \in ContainerModules

====
